---------------------------- MODULE Spec2Model ----------------------------
(***************************************************************************)
(* Model of contracts/q_native/src/state.rs: the storage layer of the      *)
(* q_native money-market contract.  The host key-value store is a finite   *)
(* map from byte strings to byte strings; every accessor of state.rs is an *)
(* operator over that map, every setter an action.                         *)
(*                                                                         *)
(* Bytes are integers 0..255, byte strings are sequences of bytes.         *)
(* A u128 is kept as 8 limbs of 16 bits, most significant first, so that   *)
(* the whole range 0 .. 2^128-1 is representable and to_be_bytes /         *)
(* from_be_bytes do real work.                                             *)
(***************************************************************************)
EXTENDS Integers, Sequences, FiniteSets, TLC

VARIABLES
    store,   \* the host key-value store: a function, byte string -> byte string
    calls    \* history: the sequence of write calls made so far

vars == <<store, calls>>

\* Bound on the number of write calls in a behaviour.
MaxOps == 2

-----------------------------------------------------------------------------
(* Results and options *)

Ok(v) == [tag |-> "Ok", val |-> <<v>>]
Err(e) == [tag |-> "Err", val |-> <<e>>]
\* A Rust panic: the call is aborted, nothing is returned to the caller.
Panic(e) == [tag |-> "Panic", val |-> <<e>>]

None == [some |-> FALSE, val |-> <<>>]
Some(v) == [some |-> TRUE, val |-> <<v>>]
Unwrap(o) == o.val[1]

CorruptedData == "Corrupted data found. 16 byte expected."
NotFound == "NotFound"
ParseErr == "ParseErr"

-----------------------------------------------------------------------------
(* Namespace tags, state.rs lines 8-12, as ASCII bytes *)

\* b"config"
CONFIG_PREFIX == <<99, 111, 110, 102, 105, 103>>
\* b"balances"
BALANCE_PREFIX == <<98, 97, 108, 97, 110, 99, 101, 115>>
\* b"allowance"
ALLOWANCE_PREFIX == <<97, 108, 108, 111, 119, 97, 110, 99, 101>>
\* b"state"
STATE_PREFIX == <<115, 116, 97, 116, 101>>
\* b"borrow"
BORROW_PREFIX == <<98, 111, 114, 114, 111, 119>>

-----------------------------------------------------------------------------
(* The host store and the prefixed views of cosmwasm_storage *)

\* Storage::get
StoreGet(s, key) == IF key \in DOMAIN s THEN Some(s[key]) ELSE None

\* Storage::set
StoreSet(s, key, value) ==
    [k \in (DOMAIN s) \cup {key} |-> IF k = key THEN value ELSE s[k]]

\* A flat concatenation of the namespace, without the length: the mutant of
\* to_length_prefixed.
to_length_prefixed_flat(namespace) == namespace

\* cosmwasm_storage's namespace encoding: two bytes of big-endian length, then
\* the namespace itself.  (It panics for a namespace longer than 0xFFFF bytes;
\* every namespace here is shorter.)
to_length_prefixed(namespace) ==
    <<Len(namespace) \div 256, Len(namespace) % 256>> \o namespace

\* The root view: the store itself, no prefix.
RootView == <<>>

\* PrefixedStorage::new / ReadonlyPrefixedStorage::new(namespace, parent): a
\* view is the prefix it puts before every key; views nest by concatenation.
PrefixedStorage(namespace, view) == view \o to_length_prefixed(namespace)

\* get / set through a view
ViewGet(s, view, key) == StoreGet(s, view \o key)
ViewSet(s, view, key, value) == StoreSet(s, view \o key, value)

-----------------------------------------------------------------------------
(* The fixed-width u128 codec *)

LimbBase == 256 * 256
U128Limbs == 1..8

\* u128::to_be_bytes
to_be_bytes(v) ==
    [i \in 1..16 |-> IF i % 2 = 1 THEN v[(i + 1) \div 2] \div 256
                                  ELSE v[i \div 2] % 256]

\* Little-endian decoding: the mutant of from_be_bytes.
from_le_bytes(b) ==
    [j \in U128Limbs |-> b[18 - 2 * j] * 256 + b[17 - 2 * j]]

\* u128::from_be_bytes
from_be_bytes(b) ==
    [j \in U128Limbs |-> b[2 * j - 1] * 256 + b[2 * j]]

\* bytes_to_u128, lines 90-97.  data[0..16] panics when data is shorter than
\* 16 bytes; the slice it yields otherwise has exactly 16 bytes, so try_into()
\* succeeds.
bytes_to_u128(data) ==
    IF Len(data) < 16
    THEN Panic("range end index 16 out of range for slice")
    ELSE LET slice == SubSeq(data, 1, 16)
         IN  IF Len(slice) = 16
             THEN Ok(from_be_bytes(slice))
             ELSE Err(CorruptedData)

ZeroU128 == [j \in U128Limbs |-> 0]

\* A missing key read as an error: the mutant of to_u128.
to_u128_strict(s, view, key) ==
    LET result == ViewGet(s, view, key)
    IN  IF result.some THEN bytes_to_u128(Unwrap(result)) ELSE Err(NotFound)

\* to_u128, lines 80-86
to_u128(s, view, key) ==
    LET result == ViewGet(s, view, key)
    IN  IF result.some THEN bytes_to_u128(Unwrap(result)) ELSE Ok(ZeroU128)

-----------------------------------------------------------------------------
(* Balance and allowance ledgers *)

\* get_balance, lines 73-76
get_balance(s, owner) ==
    LET balance_store == PrefixedStorage(BALANCE_PREFIX, RootView)
    IN  to_u128(s, balance_store, owner)

\* get_allowance, lines 100-108
get_allowance(s, owner, spender) ==
    LET allowances_store == PrefixedStorage(ALLOWANCE_PREFIX, RootView)
        owner_store == PrefixedStorage(owner, allowances_store)
    IN  to_u128(s, owner_store, spender)

\* The store after set_allowance, lines 111-121
set_allowance_store(s, owner, spender, amount) ==
    LET allowances_store == PrefixedStorage(ALLOWANCE_PREFIX, RootView)
        owner_store == PrefixedStorage(owner, allowances_store)
    IN  ViewSet(s, owner_store, spender, to_be_bytes(amount))

-----------------------------------------------------------------------------
(* The structured codec: serde_json_wasm::to_vec / from_slice of the derived *)
(* Serialize / Deserialize of Config, State and BorrowSnapshot.  A struct is *)
(* kept as the sequence of its field values in declaration order; Uint128   *)
(* fields are naturals, String fields are byte strings.                     *)

\* Uint128 is written as a JSON string of decimal digits, u8 / u64 as a JSON
\* number, String as a JSON string.
\* struct Config, lines 16-26
ConfigSchema == <<
    [name |-> <<110, 97, 109, 101>>, type |-> "String"],                  \* name
    [name |-> <<116, 111, 116, 97, 108, 95, 115, 117, 112, 112, 108, 121>>,
     type |-> "Uint128"],                                                  \* total_supply
    [name |-> <<100, 101, 99, 105, 109, 97, 108, 115>>, type |-> "u8"],   \* decimals
    [name |-> <<115, 121, 109, 98, 111, 108>>, type |-> "String"],        \* symbol
    [name |-> <<105, 110, 105, 116, 105, 97, 108, 95, 101, 120, 99, 104, 97,
                110, 103, 101, 95, 114, 97, 116, 101>>,
     type |-> "Uint128"],                                                  \* initial_exchange_rate
    [name |-> <<114, 101, 115, 101, 114, 118, 101, 95, 102, 97, 99, 116, 111,
                114>>,
     type |-> "Uint128"],                                                  \* reserve_factor
    [name |-> <<98, 111, 114, 114, 111, 119, 95, 105, 110, 100, 101, 120>>,
     type |-> "Uint128"],                                                  \* borrow_index
    [name |-> <<109, 97, 120, 95, 98, 111, 114, 114, 111, 119, 95, 114, 97,
                116, 101>>,
     type |-> "Uint128"],                                                  \* max_borrow_rate
    [name |-> <<100, 101, 110, 111, 109>>, type |-> "String"] >>          \* denom

\* struct State, lines 30-39
StateSchema == <<
    [name |-> <<99, 97, 115, 104>>, type |-> "Uint128"],                  \* cash
    [name |-> <<98, 108, 111, 99, 107, 95, 110, 117, 109, 98, 101, 114>>,
     type |-> "u64"],                                                      \* block_number
    [name |-> <<116, 111, 116, 97, 108, 95, 114, 101, 115, 101, 114, 118,
                101, 115>>,
     type |-> "Uint128"],                                                  \* total_reserves
    [name |-> <<116, 111, 116, 97, 108, 95, 98, 111, 114, 114, 111, 119,
                115>>,
     type |-> "Uint128"],                                                  \* total_borrows
    [name |-> <<101, 120, 99, 104, 97, 110, 103, 101, 95, 114, 97, 116, 101>>,
     type |-> "Uint128"],                                                  \* exchange_rate
    [name |-> <<114, 101, 115, 101, 114, 118, 101, 95, 102, 97, 99, 116, 111,
                114>>,
     type |-> "Uint128"],                                                  \* reserve_factor
    [name |-> <<109, 97, 120, 95, 98, 111, 114, 114, 111, 119, 95, 114, 97,
                116, 101>>,
     type |-> "Uint128"],                                                  \* max_borrow_rate
    [name |-> <<98, 111, 114, 114, 111, 119, 95, 105, 110, 100, 101, 120>>,
     type |-> "Uint128"] >>                                                \* borrow_index

\* struct BorrowSnapshot, lines 42-45
BorrowSnapshotSchema == <<
    [name |-> <<112, 114, 105, 110, 99, 105, 112, 97, 108>>,
     type |-> "Uint128"],                                                  \* principal
    [name |-> <<105, 110, 116, 101, 114, 101, 115, 116, 95, 105, 110, 100,
                101, 120>>,
     type |-> "Uint128"] >>                                                \* interest_index

Quote == <<34>>
JsonNull == <<110, 117, 108, 108>>
IsDigit(c) == c >= 48 /\ c <= 57

RECURSIVE DecBytes(_)
\* The decimal digits of a natural, as ASCII.
DecBytes(n) ==
    IF n < 10 THEN <<48 + n>> ELSE DecBytes(n \div 10) \o <<48 + (n % 10)>>

\* One field value as JSON text.
ValueToJson(type, v) ==
    CASE type = "Uint128" -> Quote \o DecBytes(v) \o Quote
      [] type = "String" -> Quote \o v \o Quote
      [] OTHER -> DecBytes(v)

RECURSIVE FieldsToJson(_, _, _)
FieldsToJson(schema, vals, i) ==
    IF i > Len(schema) THEN <<>>
    ELSE (IF i = 1 THEN <<>> ELSE <<44>>)
         \o Quote \o schema[i].name \o Quote \o <<58>>
         \o ValueToJson(schema[i].type, vals[i])
         \o FieldsToJson(schema, vals, i + 1)

\* to_vec of a struct: {"field":value,...} in declaration order, no blanks.
to_vec_struct(schema, vals) == <<123>> \o FieldsToJson(schema, vals, 1) \o <<125>>

\* to_vec of an Option<struct>: None is null, Some(x) is x itself.
to_vec_option(schema, opt) ==
    IF opt.some THEN to_vec_struct(schema, Unwrap(opt)) ELSE JsonNull

ParseFail == [ok |-> FALSE, pos |-> 0, val |-> <<>>]
Parsed(pos, v) == [ok |-> TRUE, pos |-> pos, val |-> <<v>>]

\* Whether the bytes lit stand in b at position pos.
HasAt(b, pos, lit) ==
    /\ pos + Len(lit) - 1 <= Len(b)
    /\ SubSeq(b, pos, pos + Len(lit) - 1) = lit

\* The end (exclusive) of the run of digits that starts at pos.
DigitsEnd(b, pos) ==
    LET stops == {q \in pos..Len(b) : ~IsDigit(b[q])}
    IN  IF stops = {} THEN Len(b) + 1
        ELSE CHOOSE q \in stops : \A r \in stops : q <= r

RECURSIVE DecValue(_)
\* The natural written by a sequence of ASCII digits.
DecValue(ds) ==
    IF Len(ds) = 0 THEN 0
    ELSE DecValue(SubSeq(ds, 1, Len(ds) - 1)) * 10 + (ds[Len(ds)] - 48)

\* A JSON number: a non-empty run of digits with no leading zero.
ParseNumber(b, pos) ==
    LET e == DigitsEnd(b, pos)
    IN  IF e = pos \/ (e > pos + 1 /\ b[pos] = 48) THEN ParseFail
        ELSE Parsed(e, DecValue(SubSeq(b, pos, e - 1)))

\* A JSON string: from the opening quote to the next quote; the contents are
\* taken as they stand.
ParseString(b, pos) ==
    IF ~HasAt(b, pos, Quote) THEN ParseFail
    ELSE LET closes == {q \in (pos + 1)..Len(b) : b[q] = 34}
         IN  IF closes = {} THEN ParseFail
             ELSE LET q == CHOOSE c \in closes : \A r \in closes : c <= r
                  IN  Parsed(q + 1, SubSeq(b, pos + 1, q - 1))

\* One field value, by the field's type.
ParseValue(b, pos, type) ==
    CASE type = "String" -> ParseString(b, pos)
      [] type = "Uint128" ->
            LET s == ParseString(b, pos)
            IN  IF ~s.ok THEN ParseFail
                ELSE LET ds == s.val[1]
                     IN  IF Len(ds) = 0 \/ \E i \in 1..Len(ds) : ~IsDigit(ds[i])
                         THEN ParseFail
                         ELSE Parsed(s.pos, DecValue(ds))
      [] type = "u8" ->
            LET n == ParseNumber(b, pos)
            IN  IF n.ok /\ n.val[1] > 255 THEN ParseFail ELSE n
      [] OTHER -> ParseNumber(b, pos)

RECURSIVE ParseFields(_, _, _, _)
\* The fields of a struct from position pos on, in declaration order.
ParseFields(b, pos, schema, i) ==
    IF i > Len(schema) THEN Parsed(pos, <<>>)
    ELSE LET head == (IF i = 1 THEN <<>> ELSE <<44>>)
                     \o Quote \o schema[i].name \o Quote \o <<58>>
         IN  IF ~HasAt(b, pos, head) THEN ParseFail
             ELSE LET v == ParseValue(b, pos + Len(head), schema[i].type)
                  IN  IF ~v.ok THEN ParseFail
                      ELSE LET rest == ParseFields(b, v.pos, schema, i + 1)
                           IN  IF ~rest.ok THEN ParseFail
                               ELSE Parsed(rest.pos, v.val \o rest.val[1])

\* from_slice::<struct>: an object holding the struct's fields and nothing
\* after it; anything else (null included) is a deserialization error.
from_slice_struct(schema, b) ==
    IF ~HasAt(b, 1, <<123>>) THEN Err(ParseErr)
    ELSE LET r == ParseFields(b, 2, schema, 1)
         IN  IF r.ok /\ HasAt(b, r.pos, <<125>>) /\ r.pos = Len(b)
             THEN Ok(r.val[1])
             ELSE Err(ParseErr)

-----------------------------------------------------------------------------
(* Singletons and the borrow bucket *)

OkVal(r) == r.val[1]

\* ReadonlySingleton::new(storage, key).load(): the value under the
\* length-prefixed key, NotFound when there is none.
singleton_load(s, key, schema) ==
    LET value == StoreGet(s, to_length_prefixed(key))
    IN  IF value.some THEN from_slice_struct(schema, Unwrap(value))
        ELSE Err(NotFound)

\* Singleton::new(storage, key).save(data)
singleton_save(s, key, schema, vals) ==
    StoreSet(s, to_length_prefixed(key), to_vec_struct(schema, vals))

\* A default struct in place of NotFound: the mutant of get_config.
get_config_or_default(s) ==
    LET r == singleton_load(s, CONFIG_PREFIX, ConfigSchema)
    IN  IF r.tag = "Ok" THEN r
        ELSE Ok(<<<<>>, 0, 0, <<>>, 0, 0, 0, 0, <<>>>>)

\* get_config, lines 53-55
get_config(s) == singleton_load(s, CONFIG_PREFIX, ConfigSchema)

\* The store after set_config, lines 58-60
set_config_store(s, config) ==
    singleton_save(s, CONFIG_PREFIX, ConfigSchema, config)

\* get_state, lines 63-65
get_state(s) == singleton_load(s, STATE_PREFIX, StateSchema)

\* A write-once singleton, which keeps the first State: a mutant of
\* set_state_store.
set_state_store_once(s, state) ==
    IF to_length_prefixed(STATE_PREFIX) \in DOMAIN s THEN s
    ELSE singleton_save(s, STATE_PREFIX, StateSchema, state)

\* State saved in the slot of Config: a mutant of set_state_store.
set_state_store_config_slot(s, state) ==
    singleton_save(s, CONFIG_PREFIX, StateSchema, state)

\* The store after set_state, lines 68-70
set_state_store(s, state) ==
    singleton_save(s, STATE_PREFIX, StateSchema, state)

\* The store key of a bucket entry: the length-prefixed namespace, then the
\* entry's key.
bucket_key(namespace, key) == to_length_prefixed(namespace) \o key

\* ReadonlyBucket::new(namespace, storage).may_load(key): Ok(None) for a
\* missing key, Ok(Some(x)) for a value that deserializes, else the error.
bucket_may_load(s, namespace, key, schema) ==
    LET value == StoreGet(s, bucket_key(namespace, key))
    IN  IF value.some
        THEN LET r == from_slice_struct(schema, Unwrap(value))
             IN  IF r.tag = "Ok" THEN Ok(Some(OkVal(r))) ELSE r
        ELSE Ok(None)

\* Bucket::new(namespace, storage).save(key, data) with the serialized data
bucket_save(s, namespace, key, bytes) ==
    StoreSet(s, bucket_key(namespace, key), bytes)

\* The error of may_load handed on to the caller: the mutant of
\* get_borrow_balance.
get_borrow_balance_propagate(s, owner) ==
    LET r == bucket_may_load(s, BORROW_PREFIX, owner, BorrowSnapshotSchema)
    IN  IF r.tag = "Ok" THEN OkVal(r) ELSE r

\* get_borrow_balance, lines 123-128
get_borrow_balance(s, owner) ==
    LET r == bucket_may_load(s, BORROW_PREFIX, owner, BorrowSnapshotSchema)
    IN  IF r.tag = "Ok" /\ OkVal(r).some THEN Some(Unwrap(OkVal(r)))
        ELSE None

\* None leaves the stored snapshot in place: the mutant of
\* set_borrow_balance_store.
set_borrow_balance_store_skip_none(s, owner, snapshot) ==
    IF snapshot.some
    THEN bucket_save(s, BORROW_PREFIX, owner,
                     to_vec_option(BorrowSnapshotSchema, snapshot))
    ELSE s

\* The store after set_borrow_balance, lines 130-142: the bucket holds
\* Option<BorrowSnapshot>, so None is saved as null.
set_borrow_balance_store(s, owner, snapshot) ==
    bucket_save(s, BORROW_PREFIX, owner,
                to_vec_option(BorrowSnapshotSchema, snapshot))

\* The fields of the structs, by position in the declaration.
Principal(snapshot) == snapshot[1]
InterestIndex(snapshot) == snapshot[2]
BlockNumber(state) == state[2]
ExchangeRate(state) == state[5]

-----------------------------------------------------------------------------
(* Inputs *)

\* Account identifiers (CanonicalAddr is an arbitrary byte string).  AddrA is
\* the bytes of a namespace tag, AddrB extends AddrA, and
\* AddrA \o AddrX = AddrB \o AddrY.
AddrA == STATE_PREFIX
AddrB == STATE_PREFIX \o <<2>>
AddrX == <<2, 2>>
AddrY == <<2>>
Addrs == {AddrA, AddrB, AddrX, AddrY}
Owners == {AddrA, AddrB}
Spenders == {AddrX, AddrY}

FiveU128 == [j \in U128Limbs |-> IF j = 8 THEN 5 ELSE 0]
MaxU128 == [j \in U128Limbs |-> LimbBase - 1]
\* 0x0102030405060708090a0b0c0d0e0f10: sixteen different bytes
PatternU128 == [j \in U128Limbs |-> (2 * j - 1) * 256 + 2 * j]
Amounts == {ZeroU128, FiveU128, MaxU128, PatternU128}

\* name "quasar", symbol "Q", denom "uq"
ConfigA == <<<<113, 117, 97, 115, 97, 114>>, 1000000, 6, <<81>>, 1000000, 5,
             1, 10, <<117, 113>>>>
\* name "q", symbol "", denom "uq"
ConfigB == <<<<113>>, 0, 255, <<>>, 2147483647, 0, 20, 0, <<117, 113>>>>
Configs == {ConfigA, ConfigB}

\* State{block_number:100, exchange_rate:1_000_000, ...} and its successor
StateA == <<40, 100, 7, 3, 1000000, 5, 10, 1>>
StateB == <<40, 101, 7, 3, 1000050, 5, 10, 1>>
States == {StateA, StateB}

SnapshotA == <<100, 1>>
SnapshotB == <<2147483647, 0>>
Snapshots == {None, Some(SnapshotA), Some(SnapshotB)}

\* Byte strings written directly under a ledger key: empty, short, one byte
\* short of the width, the exact width, and longer than the width.
RawData(n) == [i \in 1..n |-> (7 * i + n) % 256]
RawValues == {RawData(n) : n \in {0, 3, 15, 16, 17}}

-----------------------------------------------------------------------------
(* Actions *)

Init ==
    /\ store = <<>>
    /\ calls = <<>>

NoAddr == <<>>
Call(op, owner, spender, value) ==
    [op |-> op, owner |-> owner, spender |-> spender, value |-> <<value>>]
Log(c) == calls' = Append(calls, c)

set_config ==
    \E config \in Configs :
        /\ Len(calls) < MaxOps
        /\ store' = set_config_store(store, config)
        /\ Log(Call("set_config", NoAddr, NoAddr, config))

set_state ==
    \E state \in States :
        /\ Len(calls) < MaxOps
        /\ store' = set_state_store(store, state)
        /\ Log(Call("set_state", NoAddr, NoAddr, state))

set_allowance ==
    \E owner \in Owners, spender \in Spenders, amount \in Amounts :
        /\ Len(calls) < MaxOps
        /\ store' = set_allowance_store(store, owner, spender, amount)
        /\ Log(Call("set_allowance", owner, spender, amount))

\* Serializing an Option<BorrowSnapshot> cannot fail, so save returns Ok and
\* the Err arm of lines 137-140 is not taken.
set_borrow_balance ==
    \E owner \in Owners, snapshot \in Snapshots :
        /\ Len(calls) < MaxOps
        /\ store' = set_borrow_balance_store(store, owner, snapshot)
        /\ Log(Call("set_borrow_balance", owner, NoAddr, snapshot))

\* A write of arbitrary bytes under an account's key of the balance ledger.
raw_set_balance ==
    \E owner \in Owners, data \in RawValues :
        /\ Len(calls) < MaxOps
        /\ store' = ViewSet(store, PrefixedStorage(BALANCE_PREFIX, RootView),
                            owner, data)
        /\ Log(Call("raw_set_balance", owner, NoAddr, data))

\* A write of arbitrary bytes under a pair's key of the allowance ledger.
raw_set_allowance ==
    \E owner \in Owners, spender \in Spenders, data \in RawValues :
        /\ Len(calls) < MaxOps
        /\ store' = ViewSet(store,
                            PrefixedStorage(owner,
                                PrefixedStorage(ALLOWANCE_PREFIX, RootView)),
                            spender, data)
        /\ Log(Call("raw_set_allowance", owner, spender, data))

Next ==
    \/ set_config
    \/ set_state
    \/ set_allowance
    \/ set_borrow_balance

Spec == Init /\ [][Next]_vars

NextRaw ==
    \/ Next
    \/ raw_set_balance
    \/ raw_set_allowance

SpecRaw == Init /\ [][NextRaw]_vars

-----------------------------------------------------------------------------
(* Reading the history and comparing results *)

IsOk(r, v) == r.tag = "Ok" /\ r.val = <<v>>
IsErr(r, e) == r.tag = "Err" /\ r.val = <<e>>
SameResult(r1, r2) == r1.tag = r2.tag /\ r1.val = r2.val
SameOption(o1, o2) == o1.some = o2.some /\ o1.val = o2.val

\* The index in calls of the last call of one of the operations ops on the
\* entry (owner, spender); 0 when there is none.
LastIdx(ops, owner, spender) ==
    LET idx == {i \in 1..Len(calls) :
                    /\ calls[i].op \in ops
                    /\ calls[i].owner = owner
                    /\ calls[i].spender = spender}
    IN  IF idx = {} THEN 0 ELSE CHOOSE i \in idx : \A j \in idx : j <= i

LastValue(ops, owner, spender) == calls[LastIdx(ops, owner, spender)].value[1]

\* The call a step has just made.
StepCall == calls'[Len(calls')]

\* The bytes stored under an account's balance key and a pair's allowance key.
BalanceBytes(s, owner) ==
    ViewGet(s, PrefixedStorage(BALANCE_PREFIX, RootView), owner)
AllowanceBytes(s, owner, spender) ==
    ViewGet(s, PrefixedStorage(owner,
                   PrefixedStorage(ALLOWANCE_PREFIX, RootView)), spender)
BorrowBytes(s, owner) == StoreGet(s, bucket_key(BORROW_PREFIX, owner))

-----------------------------------------------------------------------------
(* Claims *)

\* C1: for every owner and spender whose key has never been written,
\* get_balance(owner) and get_allowance(owner, spender) return Ok(0), never
\* an error, whatever else the store holds.
C1_UnwrittenReadsZero ==
    \A owner \in Addrs :
        /\ LastIdx({"raw_set_balance"}, owner, NoAddr) = 0
              => IsOk(get_balance(store, owner), ZeroU128)
        /\ \A spender \in Addrs :
              LastIdx({"set_allowance", "raw_set_allowance"}, owner, spender) = 0
                  => IsOk(get_allowance(store, owner, spender), ZeroU128)

\* Another pair's allowance and another account's balance hold bytes, and the
\* unwritten pair (AddrB, AddrY) and account AddrB still read 0.
C1_Witness ==
    /\ Len(calls) = 2
    /\ AllowanceBytes(store, AddrA, AddrX).some
    /\ BalanceBytes(store, AddrA).some
    /\ ~AllowanceBytes(store, AddrB, AddrY).some
    /\ IsOk(get_allowance(store, AddrB, AddrY), ZeroU128)
    /\ IsOk(get_balance(store, AddrB), ZeroU128)

\* C2: when fewer than 16 bytes (the empty value included) are stored under a
\* balance or an allowance key, get_balance / get_allowance return the
\* CorruptedData error to the caller.
C2_ShortBytesReturnCorruptedData ==
    \A owner \in Addrs :
        /\ LET v == BalanceBytes(store, owner)
           IN  (v.some /\ Len(Unwrap(v)) < 16)
                  => IsErr(get_balance(store, owner), CorruptedData)
        /\ \A spender \in Addrs :
              LET v == AllowanceBytes(store, owner, spender)
              IN  (v.some /\ Len(Unwrap(v)) < 16)
                     => IsErr(get_allowance(store, owner, spender),
                              CorruptedData)

\* C3: get_allowance(owner, spender) returns exactly the amount of the most
\* recent set_allowance(owner, spender, amount), for every amount written
\* (0 and 2^128-1 included), and 0 when the pair was never written.
C3_AllowanceIsLastSet ==
    \A owner \in Addrs, spender \in Addrs :
        IsOk(get_allowance(store, owner, spender),
             IF LastIdx({"set_allowance"}, owner, spender) = 0 THEN ZeroU128
             ELSE LastValue({"set_allowance"}, owner, spender))

\* The pair (AddrA, AddrX) was set to 0x0102..0f10 and then to 2^128-1 and
\* reads 2^128-1, while (AddrA, AddrY), never written, reads 0.
C3_Witness ==
    /\ calls = <<Call("set_allowance", AddrA, AddrX, PatternU128),
                 Call("set_allowance", AddrA, AddrX, MaxU128)>>
    /\ IsOk(get_allowance(store, AddrA, AddrX), MaxU128)
    /\ IsOk(get_allowance(store, AddrA, AddrY), ZeroU128)

\* C4: a step set_allowance(A, X, amount) leaves get_allowance(B, Y) as it
\* was for every pair (B, Y) other than (A, X), also when A is a prefix of B
\* and when A \o X = B \o Y.
C4_AllowanceIsolation ==
    [][StepCall.op = "set_allowance" =>
          \A b \in Addrs, y \in Addrs :
              <<b, y>> # <<StepCall.owner, StepCall.spender>> =>
                  SameResult(get_allowance(store', b, y),
                             get_allowance(store, b, y))]_vars

\* (AddrB, AddrY) holds 2^128-1, then (AddrA, AddrX), whose bytes concatenate
\* to the same string, is set to 5, and (AddrB, AddrY) still reads 2^128-1.
C4_Witness ==
    /\ calls = <<Call("set_allowance", AddrB, AddrY, MaxU128),
                 Call("set_allowance", AddrA, AddrX, FiveU128)>>
    /\ AddrA \o AddrX = AddrB \o AddrY
    /\ IsOk(get_allowance(store, AddrB, AddrY), MaxU128)
    /\ IsOk(get_allowance(store, AddrA, AddrX), FiveU128)

\* C5: get_borrow_balance(owner) returns the snapshot of the last
\* set_borrow_balance for that owner: Some(s) with the principal and
\* interest_index written, None after a write of None, and None, the same
\* result, for an owner that was never written.
C5_BorrowIsLastSet ==
    \A owner \in Addrs :
        LET got == get_borrow_balance(store, owner)
        IN  IF LastIdx({"set_borrow_balance"}, owner, NoAddr) = 0
            THEN SameOption(got, None)
            ELSE LET put == LastValue({"set_borrow_balance"}, owner, NoAddr)
                 IN  /\ SameOption(got, put)
                     /\ put.some =>
                           /\ Principal(Unwrap(got)) = Principal(Unwrap(put))
                           /\ InterestIndex(Unwrap(got))
                                 = InterestIndex(Unwrap(put))

\* AddrA borrowed {principal: 100, interest_index: 1} and was then cleared
\* with None: it reads None, as AddrB, never written, does.
C5_Witness ==
    /\ calls = <<Call("set_borrow_balance", AddrA, NoAddr, Some(SnapshotA)),
                 Call("set_borrow_balance", AddrA, NoAddr, None)>>
    /\ BorrowBytes(store, AddrA).some
    /\ ~BorrowBytes(store, AddrB).some
    /\ SameOption(get_borrow_balance(store, AddrA), None)
    /\ SameOption(get_borrow_balance(store, AddrB), None)

C7_UnwrittenSingletonNotFound ==
    /\ LastIdx({"set_config"}, NoAddr, NoAddr) = 0
          => IsErr(get_config(store), NotFound)
    /\ LastIdx({"set_state"}, NoAddr, NoAddr) = 0
          => IsErr(get_state(store), NotFound)

\* State and a borrow snapshot have been written, Config has not, and
\* get_config returns NotFound while get_state returns the State written.
C7_Witness ==
    /\ Len(calls) = 2
    /\ LastIdx({"set_config"}, NoAddr, NoAddr) = 0
    /\ LastIdx({"set_state"}, NoAddr, NoAddr) # 0
    /\ \E owner \in Owners : BorrowBytes(store, owner).some
    /\ IsErr(get_config(store), NotFound)
    /\ get_state(store).tag = "Ok"

\* C8: after any sequence of set_config (resp. set_state) calls, get_config
\* (resp. get_state) returns exactly the struct of the most recent call,
\* every field as written; a second set_config overwrites the first.
C8_SingletonIsLastSet ==
    /\ LastIdx({"set_config"}, NoAddr, NoAddr) # 0
          => IsOk(get_config(store), LastValue({"set_config"}, NoAddr, NoAddr))
    /\ LastIdx({"set_state"}, NoAddr, NoAddr) # 0
          => IsOk(get_state(store), LastValue({"set_state"}, NoAddr, NoAddr))

\* State{block_number: 100, exchange_rate: 1_000_000} was written, then the
\* State that differs in block_number: 101 and exchange_rate: 1_000_050, and
\* get_state returns the second with the other fields as supplied.
C8_Witness ==
    /\ calls = <<Call("set_state", NoAddr, NoAddr, StateA),
                 Call("set_state", NoAddr, NoAddr, StateB)>>
    /\ get_state(store).tag = "Ok"
    /\ BlockNumber(OkVal(get_state(store))) = 101
    /\ ExchangeRate(OkVal(get_state(store))) = 1000050
    /\ IsOk(get_state(store), StateB)

\* What every getter returns, except for the entry a call writes.
OthersUnchanged(s, t, c) ==
    /\ c.op # "set_config" => SameResult(get_config(t), get_config(s))
    /\ c.op # "set_state" => SameResult(get_state(t), get_state(s))
    /\ \A owner \in Addrs :
          /\ SameResult(get_balance(t, owner), get_balance(s, owner))
          /\ (c.op # "set_borrow_balance" \/ c.owner # owner)
                => SameOption(get_borrow_balance(t, owner),
                              get_borrow_balance(s, owner))
          /\ \A spender \in Addrs :
                (c.op # "set_allowance" \/ c.owner # owner
                                        \/ c.spender # spender)
                    => SameResult(get_allowance(t, owner, spender),
                                  get_allowance(s, owner, spender))

\* C9: each of set_config, set_state, set_allowance and set_borrow_balance
\* changes only its own entry: every getter of every other namespace and of
\* every other key returns after the call what it returned before, also for
\* account identifiers that equal or contain a namespace tag.
C9_NamespaceIndependence ==
    [][OthersUnchanged(store, store', StepCall)]_vars

\* Config was written, then the borrow snapshot of AddrA, whose bytes are the
\* tag "state": get_config still returns the Config and get_state NotFound.
C9_Witness ==
    /\ calls = <<Call("set_config", NoAddr, NoAddr, ConfigA),
                 Call("set_borrow_balance", AddrA, NoAddr, Some(SnapshotB))>>
    /\ AddrA = STATE_PREFIX
    /\ IsOk(get_config(store), ConfigA)
    /\ IsErr(get_state(store), NotFound)
    /\ SameOption(get_borrow_balance(store, AddrA), Some(SnapshotB))

\* C10: when more than 16 bytes are stored under a balance or an allowance
\* key, get_balance / get_allowance return the CorruptedData error, not Ok of
\* the value of the first 16 bytes.
C10_LongBytesReturnCorruptedData ==
    \A owner \in Addrs :
        /\ LET v == BalanceBytes(store, owner)
           IN  (v.some /\ Len(Unwrap(v)) > 16)
                  => IsErr(get_balance(store, owner), CorruptedData)
        /\ \A spender \in Addrs :
              LET v == AllowanceBytes(store, owner, spender)
              IN  (v.some /\ Len(Unwrap(v)) > 16)
                     => IsErr(get_allowance(store, owner, spender),
                              CorruptedData)

=============================================================================
